---- MODULE Spec2Model ----
(***************************************************************************)
(* Model of Ensemble/KA_ensemble.py: the k-fold stacking component         *)
(* (ka_stacking_generalization) and the two bagging functions.             *)
(*                                                                         *)
(* Numeric arrays are functions from row indices to exact rationals        *)
(* <<numerator, denominator>>; an integer-typed array stores rationals     *)
(* with denominator 1.  The external trainers are nondeterministic: every  *)
(* fit draws the fitted model's behaviour from a small set.                *)
(***************************************************************************)
EXTENDS Integers, Sequences, FiniteSets, TLC

\* ------------------------------------------------------------------ bounds
NTrain == 3
NTest == 2
MaxFolds == 3
MaxModels == 2
MaxBagRound == 3

Rows == 0 .. NTrain - 1
TestRows == 0 .. NTest - 1

\* ------------------------------------------------------- exact arithmetic
Abs(a) == IF a < 0 THEN -a ELSE a

RECURSIVE GCD(_, _)
GCD(a, b) == IF b = 0 THEN a ELSE GCD(b, a % b)

\* a rational in lowest terms with a positive denominator
RatNorm(q) ==
    LET g == GCD(Abs(q[1]), Abs(q[2]))
        s == IF q[2] < 0 THEN -1 ELSE 1
    IN  <<(s * q[1]) \div g, (s * q[2]) \div g>>

Zero == <<0, 1>>

RatAdd(p, q) == RatNorm(<<p[1] * q[2] + q[1] * p[2], p[2] * q[2]>>)

\* true division of an array element by an integer count
RatDivInt(q, k) == RatNorm(<<q[1], q[2] * k>>)

\* conversion of a float to an integer element type: truncation toward zero
RatTrunc(q) ==
    IF q[1] >= 0 THEN <<q[1] \div q[2], 1>> ELSE <<-((-q[1]) \div q[2]), 1>>

RECURSIVE SumSeq(_)
SumSeq(s) == IF s = <<>> THEN Zero ELSE RatAdd(Head(s), SumSeq(Tail(s)))

\* np.zeros_like(y): zeros of y's shape and element type; np.zeros(n): float zeros
zeros(index) == [r \in index |-> Zero]

\* the value an array of element type dtype holds after v is assigned to a cell
Cast(v, dtype) == IF dtype = "int" THEN RatTrunc(v) ELSE v


\* --------------------------------------------------- the caller's inputs
\* rows are identified by their index; a row's feature value is its index
X_train == [r \in Rows |-> r]
X_test == [t \in TestRows |-> t]

Min(a, b) == IF a < b THEN a ELSE b

\* A KFold object yields n_folds (2 <= n_folds <= N) non-empty validation sets
\* that partition the rows; train_index is the complement of val_index.
KFoldOwners(k) == {f \in [Rows -> 0 .. k - 1] : \A c \in 0 .. k - 1 : \E r \in Rows : f[r] = c}

KFold(f, k) ==
    [c \in 1 .. k |-> [train_index |-> {r \in Rows : f[r] # c - 1},
                       val_index |-> {r \in Rows : f[r] = c - 1}]]

\* a hand-made plan of one fold: train on every row, validate on every row
OneFoldPlan == <<[train_index |-> Rows, val_index |-> Rows]>>

\* a plan a caller can pass although no KFold produces it (the plan is taken
\* unvalidated): row 0 is taken out of the first validation set, and so is in
\* none, or is added to it, and so is in two
PlanWithDefect(p) ==
    [p EXCEPT ![1].val_index = IF 0 \in @ THEN @ \ {0} ELSE @ \cup {0}]

FoldPlans ==
    LET good == {OneFoldPlan}
                    \cup UNION {{KFold(f, k) : f \in KFoldOwners(k)} : k \in 2 .. Min(MaxFolds, NTrain)}
    IN  good \cup {PlanWithDefect(p) : p \in good}

\* the validation sets are pairwise disjoint and their union is all rows
IsPartition(pairs) ==
    /\ \A a, b \in 1 .. Len(pairs) : a # b => pairs[a].val_index \cap pairs[b].val_index = {}
    /\ UNION {pairs[a].val_index : a \in 1 .. Len(pairs)} = Rows

\* the fold (0-based) whose validation set contains row r, in a partitioning plan
OwnerFold(pairs, r) == CHOOSE c \in 0 .. Len(pairs) - 1 : r \in pairs[c + 1].val_index

\* what a fitted booster or network predicts for a row: base + tilt * feature
Behaviours ==
    {[base |-> <<0, 1>>, tilt |-> 0], [base |-> <<1, 1>>, tilt |-> 0],
     [base |-> <<2, 1>>, tilt |-> 0], [base |-> <<-3, 2>>, tilt |-> 1]}

\* what a fitted classifier's predict_proba returns for every row: one probability per class
ClassCounts == {2, 3}
ProbaOutputs(n_classes) ==
    IF n_classes = 2
    THEN {<<<<1, 4>>, <<3, 4>>>>, <<<<1, 1>>, <<0, 1>>>>}
    ELSE {<<<<1, 4>>, <<1, 2>>, <<1, 4>>>>, <<<<0, 1>>, <<1, 4>>, <<3, 4>>>>}

SavedPaths == {"ckpt/"}
SavedFileNames == {"nn", "best"}


\* ------------------------------------------------------------------ state
VARIABLES
    op,          \* the run operation or bagging function that was called
    y_dtype,     \* element type of the target vector self.y: "int" or "float"
    kf_n,        \* self.kf_n: [n_folds, pairs, lazy]
    kf_cursor,   \* how many pairs the plan's current iterator has yielded
    args,        \* the other arguments of the call
    i,           \* enumerate index of the outer loop
    j,           \* enumerate index of run_other_stackers' inner loop
    pc,          \* position in the called function
    model,       \* heap index of run_nn_stacker's current model
    S_train,     \* out-of-fold prediction buffer
    S_test_i,    \* per-fold test prediction buffer: test row -> sequence of columns
    S_test,      \* averaged test predictions
    heap,        \* the model objects: [born, fits, beh]
    files,       \* the file system: path -> saved weights
    calls,       \* run_nn_stacker's calls on its collaborators, in order
    console,     \* printed lines
    writes,      \* history: the fold iterations that assigned each cell of S_train
    used,        \* history: which object, in which state, made each iteration's predictions
    n,           \* bagging: the repetition index
    train_order, \* bagging: X_train, y_train as currently ordered (row ids)
    baggedpred,  \* bagging: the accumulator
    params,      \* bagging: the gbm configuration mapping
    bagfits,     \* history: the fits of the bagged model
    bagpreds     \* history: the prediction each repetition accumulated

stackvars == <<y_dtype, kf_n, kf_cursor, i, j, model, S_train, S_test_i, S_test,
               heap, files, calls, writes, used>>
bagvars == <<n, train_order, baggedpred, params, bagfits, bagpreds>>
vars == <<op, args, pc, console, stackvars, bagvars>>

\* ------------------------------------------------------ the fold iterator
\* iter(self.kf_n): a KFold object or a list starts again at its first pair,
\* a generator goes on from where it stopped
IterStart(kf, cursor) == IF kf.lazy THEN cursor ELSE 0

HasNext(kf, cursor) == cursor < Len(kf.pairs)

\* faulty variant: every iteration gets the plan's first pair
NextPair_first(kf, cursor) == kf.pairs[1]

NextPair(kf, cursor) == kf.pairs[cursor + 1]

\* ------------------------------------------------------------ the objects
NoBeh == [base |-> Zero, tilt |-> 0]
Constructed == [pass |-> -1, fold |-> -1]

\* faulty variant: one model object is constructed and then used again in every iteration
FreshModel_reused(h, it) ==
    IF h = <<>> THEN <<[born |-> it, fits |-> <<>>, beh |-> NoBeh]>> ELSE h

\* a newly constructed model object; its heap index is the length of the result
FreshModel(h, it) == Append(h, [born |-> it, fits |-> <<>>, beh |-> NoBeh])

\* fitting object id on a training slice leaves it with the fitted behaviour b
Fit(h, id, it, train_index, b) ==
    [h EXCEPT ![id].fits = Append(@, [iter |-> it, train_index |-> train_index]),
              ![id].beh = b]

PredictValue(b, x) == RatAdd(b.base, <<b.tilt * x, 1>>)

\* model.predict on the rows idx of a feature matrix
predict(b, X, idx) == [r \in idx |-> PredictValue(b, X[r])]

\* ------------------------------------------------------------ the buffers
\* S[idx] = vals, into an array of element type dtype
AssignIndexed(S, idx, vals, dtype) ==
    [r \in DOMAIN S |-> IF r \in idx THEN Cast(vals[r], dtype) ELSE S[r]]

\* S[:, c] = vals, c 0-based
AssignColumn(S, c, vals) == [t \in DOMAIN S |-> [S[t] EXCEPT ![c + 1] = vals[t]]]

\* S[idx, c] = vals, c 0-based
AssignIndexedColumn(S, idx, c, vals) ==
    [r \in DOMAIN S |-> IF r \in idx THEN [S[r] EXCEPT ![c + 1] = vals[r]] ELSE S[r]]

RecordWrites(w, idx, it) == [r \in DOMAIN w |-> IF r \in idx THEN Append(w[r], it) ELSE w[r]]

RecordColumnWrites(w, idx, c, it) ==
    [r \in DOMAIN w |-> IF r \in idx THEN [w[r] EXCEPT ![c + 1] = Append(@, it)] ELSE w[r]]

\* faulty variant: the column sum is not divided by the fold count
SumOverFolds_undivided(S, n_folds) == [t \in DOMAIN S |-> SumSeq(S[t])]

\* S_test_i.sum(axis=1) / n_folds
SumOverFolds(S, n_folds) == [t \in DOMAIN S |-> RatDivInt(SumSeq(S[t]), n_folds)]

\* S_test_i.mean(1)
mean(S) == [t \in DOMAIN S |-> RatDivInt(SumSeq(S[t]), Len(S[t]))]

Iter(pass, fold) == [pass |-> pass, fold |-> fold]


\* ---------------------------------------------------------- construction
ZeroColumns(index, width) == [r \in index |-> [c \in 1 .. width |-> Zero]]

BagIdle ==
    /\ n = 0
    /\ train_order = <<>>
    /\ baggedpred = <<>>
    /\ params = <<>>
    /\ bagfits = <<>>
    /\ bagpreds = <<>>

\* ka_stacking_generalization(X_train, X_test, y, kf_n) and the entry of one run operation
Init ==
    /\ op \in {"lgbm", "xgb", "nn", "other"}
    /\ y_dtype \in IF op = "other" THEN {"int"} ELSE {"int", "float"}
    /\ \E p \in FoldPlans, lz \in BOOLEAN :
           kf_n = [n_folds |-> Len(p), pairs |-> p, lazy |-> lz]
    /\ args \in CASE op = "nn" ->
                       [saved_path : SavedPaths, saved_file_name : SavedFileNames]
                  [] op = "other" ->
                       [n_models : 1 .. MaxModels, n_classes : ClassCounts]
                  [] OTHER -> {<<>>}
    /\ kf_cursor = 0
    /\ i = 0
    /\ j = 0
    /\ pc = "fold"
    /\ model = 0
    /\ S_train = IF op = "other" THEN ZeroColumns(Rows, args.n_models) ELSE zeros(Rows)
    /\ S_test_i = ZeroColumns(TestRows, kf_n.n_folds)
    /\ S_test = IF op = "other" THEN ZeroColumns(TestRows, args.n_models) ELSE <<>>
    /\ heap = IF op = "other"
              THEN [m \in 1 .. args.n_models |-> [born |-> Constructed, fits |-> <<>>, beh |-> NoBeh]]
              ELSE <<>>
    /\ files = <<>>
    /\ calls = <<>>
    /\ console = IF op = "other"
                 THEN <<"Fitting base models begin", "Fitting the 0 th base models">>
                 ELSE <<>>
    /\ writes = IF op = "other"
                THEN [r \in Rows |-> [c \in 1 .. args.n_models |-> <<>>]]
                ELSE [r \in Rows |-> <<>>]
    /\ used = <<>>
    /\ BagIdle

\* ------------------------------------------------- run_lgbm_stacker (87-112)
\* one iteration of the fold loop: lightgbm.train returns a new booster
run_lgbm_stacker_fold ==
    /\ op = "lgbm"
    /\ pc = "fold"
    /\ HasNext(kf_n, kf_cursor)
    /\ \E b \in Behaviours :
           LET pair == NextPair(kf_n, kf_cursor)
               it == Iter(0, i)
               h1 == FreshModel(heap, it)
               model_fold == Len(h1)
               h2 == Fit(h1, model_fold, it, pair.train_index, b)
           IN  /\ heap' = h2
               /\ S_train' = AssignIndexed(S_train, pair.val_index,
                                           predict(h2[model_fold].beh, X_train, pair.val_index),
                                           y_dtype)
               /\ writes' = RecordWrites(writes, pair.val_index, it)
               /\ S_test_i' = AssignColumn(S_test_i, i, predict(h2[model_fold].beh, X_test, TestRows))
               /\ used' = Append(used, [iter |-> it, obj |-> model_fold, beh |-> h2[model_fold].beh])
    /\ console' = Append(console, "lightgbm is stacking fold " \o ToString(i + 1) \o " ....")
    /\ i' = i + 1
    /\ kf_cursor' = kf_cursor + 1
    /\ UNCHANGED <<op, args, pc, y_dtype, kf_n, j, model, S_test, files, calls, bagvars>>

run_lgbm_stacker_return ==
    /\ op = "lgbm"
    /\ pc = "fold"
    /\ ~HasNext(kf_n, kf_cursor)
    /\ S_test' = SumOverFolds(S_test_i, kf_n.n_folds)
    /\ pc' = "done"
    /\ UNCHANGED <<op, args, console, y_dtype, kf_n, kf_cursor, i, j, model, S_train, S_test_i,
                   heap, files, calls, writes, used, bagvars>>

\* ---------------------------------------------- run_xgboost_stacker (151-177)
run_xgboost_stacker_fold ==
    /\ op = "xgb"
    /\ pc = "fold"
    /\ HasNext(kf_n, kf_cursor)
    /\ \E b \in Behaviours :
           LET pair == NextPair(kf_n, kf_cursor)
               it == Iter(0, i)
               h1 == FreshModel(heap, it)
               model_fold == Len(h1)
               h2 == Fit(h1, model_fold, it, pair.train_index, b)
           IN  /\ heap' = h2
               /\ S_train' = AssignIndexed(S_train, pair.val_index,
                                           predict(h2[model_fold].beh, X_train, pair.val_index),
                                           y_dtype)
               /\ writes' = RecordWrites(writes, pair.val_index, it)
               /\ S_test_i' = AssignColumn(S_test_i, i, predict(h2[model_fold].beh, X_test, TestRows))
               /\ used' = Append(used, [iter |-> it, obj |-> model_fold, beh |-> h2[model_fold].beh])
    /\ console' = Append(console, "xgboost is stacking fold " \o ToString(i + 1) \o " ....")
    /\ i' = i + 1
    /\ kf_cursor' = kf_cursor + 1
    /\ UNCHANGED <<op, args, pc, y_dtype, kf_n, j, model, S_test, files, calls, bagvars>>

run_xgboost_stacker_return ==
    /\ op = "xgb"
    /\ pc = "fold"
    /\ ~HasNext(kf_n, kf_cursor)
    /\ S_test' = SumOverFolds(S_test_i, kf_n.n_folds)
    /\ pc' = "done"
    /\ UNCHANGED <<op, args, console, y_dtype, kf_n, kf_cursor, i, j, model, S_train, S_test_i,
                   heap, files, calls, writes, used, bagvars>>


\* --------------------------------------------------- run_nn_stacker (204-227)
\* faulty variant: the fold is numbered from 1, as in the progress lines
CheckpointPath_onebased(saved_path, saved_file_name, fold) ==
    saved_path \o saved_file_name \o "_v" \o ToString(fold + 1) \o ".p"

\* the path given to callbacks_keras (216) and to load_weights (222)
CheckpointPath(saved_path, saved_file_name, fold) ==
    saved_path \o saved_file_name \o "_v" \o ToString(fold) \o ".p"

Call(name, arg, obj, fold) == [call |-> name, arg |-> arg, obj |-> obj, fold |-> fold]

\* writing a file creates it or replaces its content
SaveWeights(fs, path, w) == [q \in DOMAIN fs \cup {path} |-> IF q = path THEN w ELSE fs[q]]

\* callbacks_keras(filepath, model, patience): during fit the callbacks save the
\* best epoch's weights at filepath
callbacks_keras(fs, filepath, best) == SaveWeights(fs, filepath, best)

\* the weights fit leaves in the model are the last epoch's, trained on past the best one
LastEpoch(best) == [best EXCEPT !.base = RatAdd(@, <<1, 1>>)]

load_weights(h, id, fs, path) == [h EXCEPT ![id].beh = fs[path]]

\* model.predict returns one row of one column per input row; np.squeeze drops the column axis
predict2d(b, X, idx) == [r \in idx |-> <<PredictValue(b, X[r])>>]
squeeze(m) == [r \in DOMAIN m |-> m[r][1]]

\* lines 210-220: build_model(), callbacks_keras(...), model.fit(...)
run_nn_stacker_fit ==
    /\ op = "nn"
    /\ pc = "fold"
    /\ HasNext(kf_n, kf_cursor)
    /\ \E best \in Behaviours :
           LET pair == NextPair(kf_n, kf_cursor)
               it == Iter(0, i)
               h1 == FreshModel(heap, it)
               id == Len(h1)
               path == CheckpointPath(args.saved_path, args.saved_file_name, i)
           IN  /\ model' = id
               /\ heap' = Fit(h1, id, it, pair.train_index, LastEpoch(best))
               /\ files' = callbacks_keras(files, path, best)
               /\ calls' = calls \o <<Call("callbacks_keras", path, id, i), Call("fit", "", id, i)>>
    /\ console' = Append(console, "neural network is stacking fold " \o ToString(i + 1) \o " ....")
    /\ pc' = "load"
    /\ UNCHANGED <<op, args, y_dtype, kf_n, kf_cursor, i, j, S_train, S_test_i, S_test,
                   writes, used, bagvars>>

\* line 222
run_nn_stacker_load ==
    /\ op = "nn"
    /\ pc = "load"
    /\ LET path == CheckpointPath(args.saved_path, args.saved_file_name, i)
       IN  /\ path \in DOMAIN files
           /\ heap' = load_weights(heap, model, files, path)
           /\ calls' = Append(calls, Call("load_weights", path, model, i))
    /\ pc' = "predict"
    /\ UNCHANGED <<op, args, console, y_dtype, kf_n, kf_cursor, i, j, model, S_train, S_test_i,
                   S_test, files, writes, used, bagvars>>

\* lines 223-224
run_nn_stacker_predict ==
    /\ op = "nn"
    /\ pc = "predict"
    /\ LET pair == NextPair(kf_n, kf_cursor)
           it == Iter(0, i)
       IN  /\ S_train' = AssignIndexed(S_train, pair.val_index,
                                       squeeze(predict2d(heap[model].beh, X_train, pair.val_index)),
                                       y_dtype)
           /\ writes' = RecordWrites(writes, pair.val_index, it)
           /\ S_test_i' = AssignColumn(S_test_i, i, squeeze(predict2d(heap[model].beh, X_test, TestRows)))
           /\ used' = Append(used, [iter |-> it, obj |-> model, beh |-> heap[model].beh])
           /\ calls' = calls \o <<Call("predict", "X_val_cv", model, i), Call("predict", "X_test", model, i)>>
    /\ i' = i + 1
    /\ kf_cursor' = kf_cursor + 1
    /\ pc' = "fold"
    /\ UNCHANGED <<op, args, console, y_dtype, kf_n, j, model, S_test, heap, files, bagvars>>

run_nn_stacker_return ==
    /\ op = "nn"
    /\ pc = "fold"
    /\ ~HasNext(kf_n, kf_cursor)
    /\ S_test' = SumOverFolds(S_test_i, kf_n.n_folds)
    /\ pc' = "done"
    /\ UNCHANGED <<op, args, console, y_dtype, kf_n, kf_cursor, i, j, model, S_train, S_test_i,
                   heap, files, calls, writes, used, bagvars>>

\* ----------------------------------------------- run_other_stackers (243-260)
\* faulty variant: the first column, of class 0
ClassOne_column0(proba) == proba[1]

\* predict_proba(X)[:, 1]: the second column, of class 1
ClassOne(proba) == proba[2]

predict_proba(b, idx) == [r \in idx |-> b]

\* lines 251-258: one iteration of the inner fold loop, for base_models[i]
run_other_stackers_fold ==
    /\ op = "other"
    /\ pc = "fold"
    /\ i < args.n_models
    /\ HasNext(kf_n, kf_cursor)
    /\ \E b \in ProbaOutputs(args.n_classes) :
           LET pair == NextPair(kf_n, kf_cursor)
               it == Iter(i, j)
               id == i + 1
               h2 == Fit(heap, id, it, pair.train_index, b)
               val_proba == predict_proba(h2[id].beh, pair.val_index)
               test_proba == predict_proba(h2[id].beh, TestRows)
               y_pred == [r \in pair.val_index |-> ClassOne(val_proba[r])]
           IN  /\ heap' = h2
               /\ S_train' = AssignIndexedColumn(S_train, pair.val_index, i, y_pred)
               /\ writes' = RecordColumnWrites(writes, pair.val_index, i, it)
               /\ S_test_i' = AssignColumn(S_test_i, j, [t \in TestRows |-> ClassOne(test_proba[t])])
               /\ used' = Append(used, [iter |-> it, obj |-> id, beh |-> h2[id].beh])
    /\ j' = j + 1
    /\ kf_cursor' = kf_cursor + 1
    /\ UNCHANGED <<op, args, pc, console, y_dtype, kf_n, i, model, S_test, files, calls, bagvars>>

\* line 259, then lines 248-251 for the next model: the inner loop is over,
\* S_test[:, i] is set and the next model starts with a new buffer and iter(self.kf_n)
run_other_stackers_next_model ==
    /\ op = "other"
    /\ pc = "fold"
    /\ i + 1 < args.n_models
    /\ ~HasNext(kf_n, kf_cursor)
    /\ S_test' = AssignColumn(S_test, i, mean(S_test_i))
    /\ i' = i + 1
    /\ console' = Append(console, "Fitting the " \o ToString(i + 1) \o " th base models")
    /\ S_test_i' = ZeroColumns(TestRows, kf_n.n_folds)
    /\ j' = 0
    /\ kf_cursor' = IterStart(kf_n, kf_cursor)
    /\ UNCHANGED <<op, args, pc, y_dtype, kf_n, model, S_train, heap, files, calls, writes, used,
                   bagvars>>

\* lines 259-260: the last model's inner loop is over, S_test[:, i] is set and
\* the outer loop ends
run_other_stackers_return ==
    /\ op = "other"
    /\ pc = "fold"
    /\ i + 1 = args.n_models
    /\ ~HasNext(kf_n, kf_cursor)
    /\ S_test' = AssignColumn(S_test, i, mean(S_test_i))
    /\ i' = i + 1
    /\ pc' = "done"
    /\ UNCHANGED <<op, args, console, y_dtype, kf_n, kf_cursor, j, model, S_train, S_test_i,
                   heap, files, calls, writes, used, bagvars>>

Next ==
    \/ run_lgbm_stacker_fold
    \/ run_lgbm_stacker_return
    \/ run_xgboost_stacker_fold
    \/ run_xgboost_stacker_return
    \/ run_nn_stacker_fit
    \/ run_nn_stacker_load
    \/ run_nn_stacker_predict
    \/ run_nn_stacker_return
    \/ run_other_stackers_fold
    \/ run_other_stackers_next_model
    \/ run_other_stackers_return

Spec == Init /\ [][Next]_vars

\* the three single-model run operations alone
InitSingle == Init /\ op \in {"lgbm", "xgb", "nn"}

NextSingle ==
    \/ run_lgbm_stacker_fold
    \/ run_lgbm_stacker_return
    \/ run_xgboost_stacker_fold
    \/ run_xgboost_stacker_return
    \/ run_nn_stacker_fit
    \/ run_nn_stacker_load
    \/ run_nn_stacker_predict
    \/ run_nn_stacker_return

SpecSingle == InitSingle /\ [][NextSingle]_vars

\* run_other_stackers alone
InitOther == Init /\ op = "other"

NextOther ==
    \/ run_other_stackers_fold
    \/ run_other_stackers_next_model
    \/ run_other_stackers_return

SpecOther == InitOther /\ [][NextOther]_vars


\* ------------------------------------------------------------ the baggers
Seeds == {1, 6}

RECURSIVE Reverse(_)
Reverse(s) == IF s = <<>> THEN <<>> ELSE Append(Reverse(Tail(s)), Head(s))

Rotate(s, k) == [q \in 1 .. Len(s) |-> s[((q - 1 + k) % Len(s)) + 1]]

\* sklearn.utils.shuffle(X_train, y_train, random_state=s): one permutation, fixed by
\* the seed, applied to the rows of both arrays
shuffle(order, s) == IF s % 2 = 1 THEN Rotate(Reverse(order), s) ELSE Rotate(order, s)

\* the array predict_proba returns: its number of axes and its content per test row
ProbaArray(ndim, b) ==
    [ndim |-> ndim,
     data |-> [t \in TestRows |-> CASE ndim = 1 -> b[2] [] ndim = 2 -> b [] OTHER -> <<b>>]]

\* model.predict of a regressor or a booster: one value per test row
PredArray(b) == [ndim |-> 1, data |-> predict(b, X_test, TestRows)]

\* lines 343-349 and 366-372: which array is accumulated
positive_class(pred) ==
    IF pred.ndim = 1 THEN pred
    ELSE IF pred.ndim = 2 THEN [ndim |-> 1, data |-> [t \in DOMAIN pred.data |-> pred.data[t][2]]]
    ELSE pred

\* the warning of lines 349 and 372 is printed for this array
warns(pred) == pred.ndim # 1 /\ pred.ndim # 2

Warning == "this is a n>2 category problem, stacker is only suitable for 2-class and regression"

\* baggedpred += pred/bag_round succeeds on arrays of baggedpred's shape only
broadcasts(pred) == pred.ndim = 1

\* faulty variant: the prediction is accumulated unscaled
accumulate_unscaled(acc, pred, bag_round) ==
    [t \in DOMAIN acc |-> RatAdd(acc[t], pred.data[t])]

accumulate(acc, pred, bag_round) ==
    [t \in DOMAIN acc |-> RatAdd(acc[t], RatDivInt(pred.data[t], bag_round))]

StackIdle ==
    /\ y_dtype = "float"
    /\ kf_n = [n_folds |-> 0, pairs |-> <<>>, lazy |-> FALSE]
    /\ kf_cursor = 0
    /\ i = 0
    /\ j = 0
    /\ model = 0
    /\ S_train = <<>>
    /\ S_test_i = <<>>
    /\ S_test = <<>>
    /\ heap = <<>>
    /\ files = <<>>
    /\ calls = <<>>
    /\ writes = <<>>
    /\ used = <<>>

\* the shapes predict_proba's result can have: [ndim, n_classes]
ProbaShapes == {[ndim |-> 1, n_classes |-> 2], [ndim |-> 2, n_classes |-> 2],
                [ndim |-> 2, n_classes |-> 3], [ndim |-> 3, n_classes |-> 2]}

\* the entry of ka_bagging_2class_or_reg (329) or of ka_bagging_2class_or_reg_gbm (388)
InitBag ==
    /\ op \in {"bag", "bag_gbm"}
    /\ args \in IF op = "bag"
                THEN {a \in [seed : Seeds, bag_round : 1 .. MaxBagRound, update_seed : BOOLEAN,
                             is_classification : BOOLEAN, using_notebook : BOOLEAN,
                             proba : ProbaShapes] :
                          ~a.is_classification => a.proba = [ndim |-> 1, n_classes |-> 2]}
                ELSE [seed : Seeds, bag_round : 1 .. MaxBagRound, using_notebook : BOOLEAN]
    /\ pc = "rep"
    /\ console = <<>>
    /\ n = 0
    /\ train_order = [r \in 1 .. NTrain |-> r - 1]
    /\ baggedpred = zeros(TestRows)
    /\ params = [seed |-> -1]
    /\ bagfits = <<>>
    /\ bagpreds = <<>>
    /\ StackIdle

\* one repetition of ka_bagging_2class_or_reg's loop body (334-353, 357-376)
BagRepetition ==
    /\ pc = "rep"
    /\ n < args.bag_round
    /\ LET shuffled == shuffle(train_order, args.seed + n)
           state == IF args.update_seed THEN args.seed + n ELSE -1
       IN  /\ train_order' = shuffled
           /\ bagfits' = Append(bagfits, [shuffle_seed |-> args.seed + n, random_state |-> state,
                                          rows |-> shuffled])
    /\ \E raw \in IF args.is_classification
                  THEN {ProbaArray(args.proba.ndim, b) : b \in ProbaOutputs(args.proba.n_classes)}
                  ELSE {PredArray(b) : b \in Behaviours} :
           LET pred == IF args.is_classification THEN positive_class(raw) ELSE raw
           IN  /\ console' = IF args.is_classification /\ warns(raw)
                             THEN Append(console, Warning) ELSE console
               /\ IF broadcasts(pred)
                  THEN /\ baggedpred' = accumulate(baggedpred, pred, args.bag_round)
                       /\ bagpreds' = Append(bagpreds, pred.data)
                       /\ n' = n + 1
                       /\ pc' = "rep"
                  ELSE /\ pc' = "error"
                       /\ UNCHANGED <<baggedpred, bagpreds, n>>
    /\ UNCHANGED <<op, args, params, stackvars>>

\* lines 332-353: the loop under tqdm_notebook
ka_bagging_2class_or_reg_notebook_rep ==
    /\ op = "bag"
    /\ args.using_notebook
    /\ BagRepetition

\* lines 355-376: the loop under tqdm
ka_bagging_2class_or_reg_tqdm_rep ==
    /\ op = "bag"
    /\ ~args.using_notebook
    /\ BagRepetition

\* line 377
ka_bagging_2class_or_reg_return ==
    /\ op = "bag"
    /\ pc = "rep"
    /\ n = args.bag_round
    /\ pc' = "done"
    /\ UNCHANGED <<op, args, console, stackvars, bagvars>>

\* lines 391-397: the only loop of ka_bagging_2class_or_reg_gbm
ka_bagging_2class_or_reg_gbm_rep ==
    /\ op = "bag_gbm"
    /\ pc = "rep"
    /\ args.using_notebook
    /\ n < args.bag_round
    /\ LET shuffled == shuffle(train_order, args.seed + n)
       IN  /\ train_order' = shuffled
           /\ params' = [params EXCEPT !.seed = args.seed + n]
           /\ bagfits' = Append(bagfits, [shuffle_seed |-> args.seed + n,
                                          random_state |-> args.seed + n, rows |-> shuffled])
    /\ \E b \in Behaviours :
           LET pred == PredArray(b)
           IN  /\ baggedpred' = accumulate(baggedpred, pred, args.bag_round)
               /\ bagpreds' = Append(bagpreds, pred.data)
    /\ n' = n + 1
    /\ UNCHANGED <<op, args, pc, console, stackvars>>

\* line 399: reached when the loop is over, and at once when using_notebook is false
ka_bagging_2class_or_reg_gbm_return ==
    /\ op = "bag_gbm"
    /\ pc = "rep"
    /\ ~args.using_notebook \/ n = args.bag_round
    /\ pc' = "done"
    /\ UNCHANGED <<op, args, console, stackvars, bagvars>>

NextBag ==
    \/ ka_bagging_2class_or_reg_notebook_rep
    \/ ka_bagging_2class_or_reg_tqdm_rep
    \/ ka_bagging_2class_or_reg_return
    \/ ka_bagging_2class_or_reg_gbm_rep
    \/ ka_bagging_2class_or_reg_gbm_return

SpecBag == InitBag /\ [][NextBag]_vars


\* ================================================================ claims
SingleOps == {"lgbm", "xgb", "nn"}

Last(s) == s[Len(s)]

\* the uses (prediction records) of pass m of run_other_stackers, in order
RECURSIVE UsesOfPass(_, _)
UsesOfPass(u, m) ==
    IF u = <<>> THEN <<>>
    ELSE IF Head(u).iter.pass = m THEN <<Head(u)>> \o UsesOfPass(Tail(u), m)
    ELSE UsesOfPass(Tail(u), m)

\* C1: in run_lgbm_stacker, run_xgboost_stacker and run_nn_stacker, under a
\* partitioning fold plan, every row of S_train that belongs to a finished fold
\* has been assigned exactly once, in the iteration of the fold whose validation
\* set contains it, and no other row has been assigned; after the run every row
\* has been assigned exactly once.
C1_WrittenOnceByOwnFold ==
    (op \in SingleOps /\ IsPartition(kf_n.pairs)) =>
        /\ \A r \in Rows :
               writes[r] = IF OwnerFold(kf_n.pairs, r) < i
                           THEN <<Iter(0, OwnerFold(kf_n.pairs, r))>>
                           ELSE <<>>
        /\ pc = "done" => \A r \in Rows : Len(writes[r]) = 1

C1_Witness ==
    /\ op = "nn"
    /\ pc = "done"
    /\ kf_n.n_folds = 3
    /\ IsPartition(kf_n.pairs)
    /\ \A r \in Rows : writes[r] = <<Iter(0, OwnerFold(kf_n.pairs, r))>>

\* C2: in the three single-model run operations, after the run the plan has
\* yielded n_folds pairs, column c of the per-fold buffer holds fold c's test
\* prediction, and S_test[t] is the sum of the folds' predictions for test row t
\* divided by the fold count.
C2_TestMeanOverFolds ==
    (op \in SingleOps /\ pc = "done") =>
        /\ Len(used) = kf_n.n_folds
        /\ \A c \in 1 .. Len(used) : used[c].iter = Iter(0, c - 1)
        /\ \A t \in TestRows :
               /\ \A c \in 1 .. Len(used) : S_test_i[t][c] = PredictValue(used[c].beh, X_test[t])
               /\ S_test[t] = RatDivInt(SumSeq([c \in 1 .. Len(used) |->
                                                   PredictValue(used[c].beh, X_test[t])]),
                                        Len(used))

\* three folds whose models predict the fold index: S_test is 1 for every test row
C2_Witness ==
    /\ op = "lgbm"
    /\ pc = "done"
    /\ Len(used) = 3
    /\ \A c \in 1 .. 3 : used[c].beh = [base |-> <<c - 1, 1>>, tilt |-> 0]
    /\ \A t \in TestRows : S_test[t] = <<1, 1>>

\* C3: in run_other_stackers, under a partitioning fold plan, whether the plan
\* is a lazy or an eager sequence, every model runs all the folds: column m of
\* S_train is written once per row with model m's class-1 probability of the
\* row's own fold, and column m of S_test is the mean over the folds of model
\* m's class-1 test probabilities.
C3_EveryModelRunsAllFolds ==
    (op = "other" /\ pc = "done" /\ IsPartition(kf_n.pairs)) =>
        \A m \in 0 .. args.n_models - 1 :
            LET u == UsesOfPass(used, m)
            IN  /\ Len(u) = kf_n.n_folds
                /\ \A r \in Rows :
                       /\ writes[r][m + 1] = <<Iter(m, OwnerFold(kf_n.pairs, r))>>
                       /\ S_train[r][m + 1] = u[OwnerFold(kf_n.pairs, r) + 1].beh[2]
                /\ \A t \in TestRows :
                       S_test[t][m + 1] =
                           RatDivInt(SumSeq([c \in 1 .. Len(u) |-> u[c].beh[2]]), Len(u))

\* C7 as stated: in run_other_stackers a probability prediction with more than
\* two columns is reported by a console warning.
C7_WarningEmitted ==
    (op = "other" /\ args.n_classes > 2 /\ used # <<>>) =>
        \E q \in 1 .. Len(console) : console[q] = Warning

\* C7, amended: in run_other_stackers a probability prediction with more than
\* two columns is not reported (no warning is on the console) and the run goes
\* on: every cell of S_train holds column 1 of its last writer's prediction,
\* and every finished column of S_test is the sum of column 1 of the pass's
\* test predictions divided by the fold count.
C7_NoWarningColumnOneUsed ==
    (op = "other" /\ args.n_classes > 2) =>
        /\ pc \in {"fold", "done"}
        /\ console[1] = "Fitting base models begin"
        /\ \A q \in 1 .. Len(console) : console[q] # Warning
        /\ \A q \in 1 .. Len(used) :
               \A r \in kf_n.pairs[used[q].iter.fold + 1].val_index :
                   Last(writes[r][used[q].iter.pass + 1]) = used[q].iter =>
                       S_train[r][used[q].iter.pass + 1] = used[q].beh[2]
        /\ \A m \in 0 .. i - 1 :
               LET u == UsesOfPass(used, m)
                   mu == RatDivInt(SumSeq([c \in 1 .. Len(u) |-> u[c].beh[2]]), kf_n.n_folds)
               IN  \A t \in TestRows : S_test[t][m + 1] = mu

C7_Witness ==
    /\ op = "other"
    /\ pc = "done"
    /\ args.n_classes = 3
    /\ args.n_models = 2
    /\ Len(used) = 2 * kf_n.n_folds
    /\ \A q \in 1 .. Len(used) : Len(used[q].beh) = 3
    /\ \A q \in 1 .. Len(console) : console[q] # Warning

\* C8 as stated: the checkpoint path given to the training callback and to
\* load_weights for fold f is saved_path + saved_file_name + '_v' + str(f),
\* with nothing appended.
C8_PathWithoutSuffix ==
    op = "nn" =>
        \A q \in 1 .. Len(calls) :
            calls[q].call \in {"callbacks_keras", "load_weights"} =>
                calls[q].arg = args.saved_path \o args.saved_file_name \o "_v"
                                   \o ToString(calls[q].fold)

\* C8, amended: the calls of fold f are, in this order, callbacks_keras, fit,
\* load_weights, predict on the validation slice and predict on the test
\* matrix, all on the same model; the callback and load_weights get the same
\* path, saved_path + saved_file_name + '_v' + str(f) + '.p'.
C8_PathAndOrder ==
    op = "nn" =>
        \A q \in 1 .. Len(calls) :
            LET f == (q - 1) \div 5
                k == ((q - 1) % 5) + 1
                c == calls[q]
            IN  /\ c.fold = f
                /\ c.obj = calls[q - k + 1].obj
                /\ c.call = <<"callbacks_keras", "fit", "load_weights", "predict", "predict">>[k]
                /\ c.arg = <<args.saved_path \o args.saved_file_name \o "_v" \o ToString(f) \o ".p",
                             "",
                             args.saved_path \o args.saved_file_name \o "_v" \o ToString(f) \o ".p",
                             "X_val_cv",
                             "X_test">>[k]

C8_Witness ==
    /\ op = "nn"
    /\ pc = "done"
    /\ args.saved_file_name = "nn"
    /\ Len(calls) = 10
    /\ calls[6].arg = "ckpt/nn_v1.p"
    /\ calls[8] = Call("load_weights", "ckpt/nn_v1.p", 2, 1)
    /\ calls[9].call = "predict"

\* C9 as stated: in each of the four run operations the object that predicts
\* for an iteration was created in that iteration and has been fitted once, on
\* that iteration's training slice.
C9_AlwaysFreshModel ==
    \A q \in 1 .. Len(used) :
        LET u == used[q]
        IN  /\ heap[u.obj].born = u.iter
            /\ heap[u.obj].fits = <<[iter |-> u.iter,
                                     train_index |-> kf_n.pairs[u.iter.fold + 1].train_index]>>

\* C9, amended: in run_lgbm_stacker, run_xgboost_stacker and run_nn_stacker the
\* object that predicts for fold f was created in fold f's iteration, has been
\* fitted once, on fold f's training slice, and predicts for no other fold; in
\* run_other_stackers the object that predicts in fold c of pass m is
\* base_models[m] itself, constructed before the run; its c-th fit was that
\* iteration's, on fold c's training slice, and it has been fitted once for
\* every prediction record of its pass (the records are in iteration order).
C9_FreshExceptOtherStackers ==
    IF op \in SingleOps
    THEN \A q \in 1 .. Len(used) :
             LET u == used[q]
                 o == heap[u.obj]
             IN  /\ o.born = u.iter
                 /\ o.fits = <<[iter |-> u.iter,
                                train_index |-> kf_n.pairs[u.iter.fold + 1].train_index]>>
                 /\ \A q2 \in 1 .. Len(used) : q2 # q => used[q2].obj # u.obj
    ELSE op = "other" =>
             /\ \A q \in 1 .. Len(used) :
                    LET u == used[q]
                        o == heap[u.obj]
                        c == u.iter.fold + 1
                    IN  /\ u.obj = u.iter.pass + 1
                        /\ o.born = Constructed
                        /\ c <= Len(o.fits)
                        /\ o.fits[c] = [iter |-> u.iter,
                                        train_index |-> kf_n.pairs[c].train_index]
                        /\ q > 1 => \/ used[q - 1].iter.pass < u.iter.pass
                                    \/ /\ used[q - 1].iter.pass = u.iter.pass
                                       /\ used[q - 1].iter.fold < u.iter.fold
             /\ SumSeq([m \in 1 .. Len(heap) |-> <<Len(heap[m].fits), 1>>]) = <<Len(used), 1>>

C9_Witness ==
    /\ op = "other"
    /\ pc = "done"
    /\ Len(heap[1].fits) = 3
    /\ \A q \in 1 .. 3 : used[q].obj = 1

\* C10: in the three single-model run operations, under a partitioning fold
\* plan, after the run S_train[r] is exactly the value the model of r's own
\* fold predicted for r, whatever the element type of y.
C10_StoredValueIsPrediction ==
    (op \in SingleOps /\ pc = "done" /\ IsPartition(kf_n.pairs)) =>
        \A r \in Rows :
            S_train[r] = PredictValue(used[OwnerFold(kf_n.pairs, r) + 1].beh, X_train[r])

\* C4: ka_bagging_2class_or_reg, when it returns, has made bag_round
\* repetitions; repetition q shuffled with seed + q and fitted on all the
\* training rows; the result is the sum of the repetitions' predictions divided
\* by bag_round, and with bag_round = 1 it is the one repetition's prediction.
C4_BaggedMean ==
    (op = "bag" /\ pc = "done") =>
        /\ n = args.bag_round
        /\ Len(bagfits) = args.bag_round
        /\ Len(bagpreds) = args.bag_round
        /\ \A q \in 1 .. Len(bagfits) :
               /\ bagfits[q].shuffle_seed = args.seed + q - 1
               /\ Len(bagfits[q].rows) = NTrain
               /\ {bagfits[q].rows[x] : x \in 1 .. NTrain} = Rows
        /\ \A t \in TestRows :
               baggedpred[t] = RatDivInt(SumSeq([q \in 1 .. Len(bagpreds) |-> bagpreds[q][t]]),
                                         args.bag_round)
        /\ args.bag_round = 1 => baggedpred = bagpreds[1]

C4_Witness ==
    /\ op = "bag"
    /\ pc = "done"
    /\ ~args.using_notebook
    /\ args.bag_round = 3
    /\ \E t \in TestRows : bagpreds[1][t] # bagpreds[2][t]
    /\ \E t \in TestRows : baggedpred[t] # Zero

\* C5: ka_bagging_2class_or_reg_gbm, when it returns, has made bag_round
\* repetitions, the last with params['seed'] = seed + bag_round - 1, and the
\* result is the sum of the repetitions' predictions divided by bag_round.
C5_GbmBaggedMean ==
    (op = "bag_gbm" /\ pc = "done") =>
        /\ Len(bagpreds) = args.bag_round
        /\ params.seed = args.seed + args.bag_round - 1
        /\ \A t \in TestRows :
               baggedpred[t] = RatDivInt(SumSeq([q \in 1 .. Len(bagpreds) |-> bagpreds[q][t]]),
                                         args.bag_round)

\* C6: in ka_bagging_2class_or_reg with is_classification, a probability matrix
\* with more than two columns has no column selected: nothing is accumulated
\* and the call does not return.
C6_WideMatrixFails ==
    (op = "bag" /\ args.is_classification /\ args.proba.ndim = 2 /\ args.proba.n_classes > 2) =>
        /\ bagpreds = <<>>
        /\ pc # "done"

====
